---- MODULE Spec2Model ----
(***************************************************************************)
(* Model of the VideoMind front-ends: the HTTP client wrapper and its      *)
(* accessors (services/api.js), the advanced page (App, VideoAnalyzer,     *)
(* AnalysisResults) and the legacy page (frontend/src/App.jsx).            *)
(*                                                                         *)
(* Encoding of JavaScript values:                                          *)
(*   - null / undefined / an absent field is None (<<>>), a present value  *)
(*     v is Some(v) (<<v>>) wherever the code lets a value be absent;      *)
(*   - text whose characters the code inspects (the URL, the question) is  *)
(*     a sequence of one-character strings; text that is only passed       *)
(*     around is a TLA+ string; a template literal is the sequence of its  *)
(*     pieces;                                                             *)
(*   - an object is a record.                                              *)
(***************************************************************************)
EXTENDS Integers, Sequences, FiniteSets, TLC

VARIABLES
    \* ---- the network: requests sent and not yet settled
    net,
    \* ---- the last accessor call made directly (not by a page): how its request
    \*      ended, what the interceptor rejected with, what the accessor handed back
    settled,
    \* ---- which page is mounted: "advanced", "legacy" or "none"
    app,
    \* ---- advanced page, App
    analysisData, loading, error, selectedLanguage,
    \* ---- advanced page, VideoAnalyzer
    url, outputLanguage, videoLanguageHint, supportedLanguages, isValidUrl,
    loadingLanguages, showAdvancedOptions,
    \* ---- advanced page, AnalysisResults
    activeTab, query, queryResponse, queryLoading, searchTerm,
    \* ---- legacy page, App
    L_inputUrl, L_responseText, L_transcript, L_loading, L_activeAgent,
    L_userQuery, L_queryResponse,
    \* ---- legacy page, Tabs: its own activeTab, and the trigger clicked last
    Tabs_activeTab, Tabs_clicked

apiVars == <<net, settled>>
appVars == <<analysisData, loading, error, selectedLanguage>>
analyzerVars == <<url, outputLanguage, videoLanguageHint, supportedLanguages,
                  isValidUrl, loadingLanguages, showAdvancedOptions>>
resultsVars == <<activeTab, query, queryResponse, queryLoading, searchTerm>>
tabsVars == <<Tabs_activeTab, Tabs_clicked>>
legacyVars == <<L_inputUrl, L_responseText, L_transcript, L_loading,
                L_activeAgent, L_userQuery, L_queryResponse, tabsVars>>
vars == <<apiVars, app, appVars, analyzerVars, resultsVars, legacyVars>>

-----------------------------------------------------------------------------
(* Bounds of the model *)

\* requests in flight at the same time
MaxInFlight == 2

-----------------------------------------------------------------------------
(* JavaScript values *)

None == <<>>
Some(v) == <<v>>
Get(o) == o[1]

\* x || y on optional text: x when it is present and not the empty string
Truthy(o) == o # None /\ Get(o) # ""

\* String.prototype.trim on a sequence of characters
WhiteSpace == {" ", "\t", "\n"}

RECURSIVE TrimStart(_)
TrimStart(s) ==
    IF s = <<>> THEN <<>>
    ELSE IF Head(s) \in WhiteSpace THEN TrimStart(Tail(s)) ELSE s

RECURSIVE TrimEnd(_)
TrimEnd(s) ==
    IF s = <<>> THEN <<>>
    ELSE IF s[Len(s)] \in WhiteSpace THEN TrimEnd(SubSeq(s, 1, Len(s) - 1)) ELSE s

Trim(s) == TrimEnd(TrimStart(s))

RemoveAt(s, i) == SubSeq(s, 1, i - 1) \o SubSeq(s, i + 1, Len(s))

-----------------------------------------------------------------------------
(* services/api.js: the response interceptor *)

NetworkAdvisory ==
    "Network Error: Unable to connect to the API server. Make sure the backend is running on http://localhost:8000"

\* error.response.data?.detail and error.response.data?.message
DataField(response, f) ==
    IF response.data = None THEN None ELSE Get(response.data)[f]

\* the rejected handler of api.interceptors.response: the Error it throws
OnRejectedNoResponseFirst(err) ==
    IF err.request
    THEN [message |-> <<NetworkAdvisory>>]
    ELSE IF err.response # None
    THEN LET response == Get(err.response)
             detail == DataField(response, "detail")
             msg == DataField(response, "message")
             message == IF Truthy(detail) THEN Get(detail)
                        ELSE IF Truthy(msg) THEN Get(msg)
                        ELSE err.message
         IN  [message |-> <<"API Error (", ToString(response.status), "): ", message>>]
    ELSE [message |-> <<"Request Error: ", err.message>>]

OnRejectedMessageFirst(err) ==
    IF err.response # None
    THEN LET response == Get(err.response)
             detail == DataField(response, "detail")
             msg == DataField(response, "message")
             message == IF Truthy(msg) THEN Get(msg)
                        ELSE IF Truthy(detail) THEN Get(detail)
                        ELSE err.message
         IN  [message |-> <<"API Error (", ToString(response.status), "): ", message>>]
    ELSE IF err.request
    THEN [message |-> <<NetworkAdvisory>>]
    ELSE [message |-> <<"Request Error: ", err.message>>]

OnRejected(err) ==
    IF err.response # None
    THEN LET response == Get(err.response)
             detail == DataField(response, "detail")
             msg == DataField(response, "message")
             message == IF Truthy(detail) THEN Get(detail)
                        ELSE IF Truthy(msg) THEN Get(msg)
                        ELSE err.message
         IN  [message |-> <<"API Error (", ToString(response.status), "): ", message>>]
    ELSE IF err.request
    THEN [message |-> <<NetworkAdvisory>>]
    ELSE [message |-> <<"Request Error: ", err.message>>]

\* what the interceptors make of a settled request: the response, or the
\* Error the promise is rejected with
Intercepted(outcome) == IF outcome.ok THEN None ELSE Some(OnRejected(outcome.error))

\* what an awaited accessor hands to its caller
Return(v) == [threw |-> FALSE, value |-> v]
Throw(e) == [threw |-> TRUE, value |-> e]

\* default parameter values (applied when the argument is undefined)
OrDefault(arg, d) == IF arg = None THEN d ELSE Get(arg)

-----------------------------------------------------------------------------
(* services/api.js: the accessors *)

LanguageDisplaysName(code, name, native, flag) ==
    [code |-> code, name |-> name, native_name |-> native, flag |-> flag,
     display |-> <<flag, " ", name>>]

Language(code, name, native, flag) ==
    [code |-> code, name |-> name, native_name |-> native, flag |-> flag,
     display |-> <<flag, " ", native>>]

FallbackLanguages ==
    [languages |-> <<
        Language("en", "English", "English", "flag-US"),
        Language("es", "Spanish", "Espanol", "flag-ES"),
        Language("fr", "French", "Francais", "flag-FR"),
        Language("de", "German", "Deutsch", "flag-DE"),
        Language("it", "Italian", "Italiano", "flag-IT"),
        Language("ja", "Japanese", "Nihongo", "flag-JP"),
        Language("ko", "Korean", "Hangugeo", "flag-KR"),
        Language("zh", "Chinese", "Zhongwen", "flag-CN"),
        Language("hi", "Hindi", "Hindi", "flag-IN"),
        Language("ar", "Arabic", "Arabiyya", "flag-SA") >>,
     total_languages |-> 10]

getSupportedLanguages_request == [method |-> "GET", url |-> "/api/languages", data |-> None]

getSupportedLanguagesRethrows(outcome) ==
    IF outcome.ok THEN Return(outcome.data) ELSE Throw(OnRejected(outcome.error))

getSupportedLanguages(outcome) ==
    IF outcome.ok THEN Return(outcome.data) ELSE Return(FallbackLanguages)

analyzeVideoAdvanced_requestDropsHint(u, outLang, hint) ==
    [method |-> "POST", url |-> "/api/advanced-summary",
     data |-> Some([url |-> u,
                    output_language |-> OrDefault(outLang, "en"),
                    auto_detect_video_language |-> TRUE,
                    video_language_hint |-> None])]

analyzeVideoAdvanced_request(u, outLang, hint) ==
    [method |-> "POST", url |-> "/api/advanced-summary",
     data |-> Some([url |-> u,
                    output_language |-> OrDefault(outLang, "en"),
                    auto_detect_video_language |-> TRUE,
                    video_language_hint |-> hint])]

analyzeVideoAdvanced(outcome) ==
    IF outcome.ok THEN Return(outcome.data) ELSE Throw(OnRejected(outcome.error))

queryTranscriptAdvanced_requestIgnoresLanguage(transcript, q, outLang, queryLang) ==
    [method |-> "POST", url |-> "/api/advanced-query",
     data |-> Some([transcript |-> transcript,
                    query |-> q,
                    output_language |-> "en",
                    query_language |-> queryLang])]

queryTranscriptAdvanced_request(transcript, q, outLang, queryLang) ==
    [method |-> "POST", url |-> "/api/advanced-query",
     data |-> Some([transcript |-> transcript,
                    query |-> q,
                    output_language |-> OrDefault(outLang, "en"),
                    query_language |-> queryLang])]

queryTranscriptAdvancedWrapsError(outcome) ==
    IF outcome.ok THEN Return(outcome.data)
    ELSE Throw([message |-> <<"Failed to query transcript">>])

queryTranscriptAdvanced(outcome) ==
    IF outcome.ok THEN Return(outcome.data) ELSE Throw(OnRejected(outcome.error))

checkApiHealth_request == [method |-> "GET", url |-> "/health", data |-> None]

checkApiHealth(outcome) ==
    IF outcome.ok THEN Return(outcome.status = 200) ELSE Return(FALSE)

-----------------------------------------------------------------------------
(* The backend (external): what a request can be answered with *)

\* 2xx statuses: axios resolves the promise
SuccessStatuses == {200, 204}

\* statuses outside 2xx: axios rejects with error.response set
ErrorStatuses == {404, 500}

\* the bodies of an error response: none, or detail and message each absent or
\* supplied, detail also supplied empty
ErrorBodies ==
    {None} \cup {Some([detail |-> dt, message |-> m]) :
                    dt \in {None, Some(""), Some("bad url")},
                    m \in {None, Some("server says no")}}

\* every body under the first status, two of them under the others
ErrorResponses ==
    {[status |-> st, data |-> d] :
        st \in ErrorStatuses,
        d \in {None, Some([detail |-> Some("bad url"), message |-> None])}}
    \cup {[status |-> 404, data |-> d] : d \in ErrorBodies}

\* the shapes of error axios can reject with: a response received, the request
\* object present or not; no response, the request sent or not
RawErrors ==
    {[response |-> Some(r), request |-> q, message |-> "Request failed"] :
        r \in ErrorResponses, q \in BOOLEAN}
    \cup [response : {None},
          request : BOOLEAN,
          message : {"timeout of 90000ms exceeded", "Request failed"}]

\* one error of each kind, for the pages
PageErrors ==
    {[response |-> Some([status |-> 500, data |-> Some([detail |-> Some("bad url"), message |-> None])]),
      request |-> TRUE, message |-> "Request failed"],
     [response |-> None, request |-> TRUE, message |-> "timeout of 90000ms exceeded"],
     [response |-> None, request |-> FALSE, message |-> "Request failed"]}

Failed(e) == [ok |-> FALSE, error |-> e]
Replied(st, d) == [ok |-> TRUE, status |-> st, data |-> d]

BackendCatalog ==
    [languages |-> <<
        Language("en", "English", "English", "flag-US"),
        Language("ko", "Korean", "Hangugeo", "flag-KR"),
        Language("pt", "Portuguese", "Portugues", "flag-BR") >>,
     total_languages |-> 3]

\* the transcript the backend extracts from the video at u, or an empty one
TranscriptOf(u) == <<"transcript of ", u>>
TranscriptsOf(u) == {<<>>, TranscriptOf(u)}

AnswersTo(q) == {"answer one", "answer two"}

\* the replies the backend can give to a request
Replies(req) ==
    CASE req.url = "/api/languages" ->
            {Replied(200, BackendCatalog)}
      [] req.url = "/api/advanced-summary" ->
            {Replied(200, [video |-> Get(req.data).url, transcript |-> t,
                           output_language |-> Get(req.data).output_language]) :
                t \in TranscriptsOf(Get(req.data).url)}
      [] req.url = "/api/advanced-query" ->
            {Replied(200, [response |-> a]) : a \in AnswersTo(Get(req.data).query)}
      [] req.url = "/health" ->
            {Replied(st, [status |-> "healthy"]) : st \in SuccessStatuses}
      [] req.url = "http://localhost:8000/api/summary" ->
            {Replied(200, [summary |-> sm, transcript |-> t]) :
                sm \in {None, Some("summary of the video")},
                t \in {None, Some(TranscriptOf(Get(req.data).url))}}
      [] req.url = "http://localhost:8000/api/query" ->
            {Replied(200, [response |-> a]) : a \in {None, Some("answer one")}}

Outcomes(req, errors) == Replies(req) \cup {Failed(e) : e \in errors}

-----------------------------------------------------------------------------
(* The URLs and questions a user types *)

UrlWatch == <<"y", "o", "u", "t", "u", "b", "e", ".", "c", "o", "m", "/", "w", "a", "t", "c", "h", "?", "v", "=", "d", "Q", "w", "4", "w", "9", "W", "g", "X", "c", "Q">>
UrlShort == <<"y", "o", "u", "t", "u", ".", "b", "e", "/", "d", "Q", "w", "4", "w", "9", "W", "g", "X", "c", "Q">>
UrlEmbed == <<"y", "o", "u", "t", "u", "b", "e", ".", "c", "o", "m", "/", "e", "m", "b", "e", "d", "/", "a", "_", "b", "-", "c", "_", "d", "-", "e", "_", "f">>
UrlV == <<"y", "o", "u", "t", "u", "b", "e", ".", "c", "o", "m", "/", "v", "/", "0", "1", "2", "3", "4", "5", "6", "7", "8", "9", "A">>
UrlPadded == <<" ", "y", "o", "u", "t", "u", ".", "b", "e", "/", "d", "Q", "w", "4", "w", "9", "W", "g", "X", "c", "Q">>
UrlTenChars == <<"y", "o", "u", "t", "u", ".", "b", "e", "/", "d", "Q", "w", "4", "w", "9", "W", "g", "X", "c">>
UrlBadChar == <<"y", "o", "u", "t", "u", ".", "b", "e", "/", "d", "Q", "w", "4", "w", "!", "W", "g", "X", "c", "Q">>
UrlNoDot == <<"y", "o", "u", "t", "u", "X", "b", "e", "/", "d", "Q", "w", "4", "w", "9", "W", "g", "X", "c", "Q">>
UrlOtherHost == <<"v", "i", "m", "e", "o", ".", "c", "o", "m", "/", "w", "a", "t", "c", "h", "?", "v", "=", "d", "Q", "w", "4", "w", "9", "W", "g", "X", "c", "Q">>
UrlNotAUrl == <<"n", "o", "t", "-", "a", "-", "u", "r", "l">>
UrlBlank == <<" ", " ">>
UrlEmpty == <<>>

\* what is typed into the URL field when the form is driven through its handlers
AllUrls == {UrlWatch, UrlShort, UrlEmbed, UrlV, UrlPadded, UrlTenChars, UrlBadChar,
            UrlNoDot, UrlOtherHost, UrlNotAUrl, UrlBlank, UrlEmpty}

\* what is typed into the URL field when the page is driven through its controls
PageUrls == {UrlShort, UrlNotAUrl, UrlEmpty}

Questions == {<<>>, <<" ">>, <<"w", "h", "y", "?">>}

SearchTerms == {"", "video"}

\* the languages the user picks among those offered
LanguageChoices == {"en", "ko"}
HintChoices == {"", "ko"}

-----------------------------------------------------------------------------
(* components/VideoAnalyzer.jsx: URL validation *)

\* the length of a video identifier, {11} in the four patterns
IdLength == 11

\* [0-9A-Za-z_-]
IdChars ==
    {"0", "1", "2", "3", "4", "5", "6", "7", "8", "9",
     "A", "B", "C", "D", "E", "F", "G", "H", "I", "J", "K", "L", "M", "N", "O", "P",
     "Q", "R", "S", "T", "U", "V", "W", "X", "Y", "Z",
     "a", "b", "c", "d", "e", "f", "g", "h", "i", "j", "k", "l", "m", "n", "o", "p",
     "q", "r", "s", "t", "u", "v", "w", "x", "y", "z", "_", "-"}

\* the literal prefixes of the four patterns (the dots are escaped: literal dots)
patterns ==
    << <<"y", "o", "u", "t", "u", "b", "e", ".", "c", "o", "m", "/", "w", "a", "t", "c", "h", "?", "v", "=">>,
       <<"y", "o", "u", "t", "u", ".", "b", "e", "/">>,
       <<"y", "o", "u", "t", "u", "b", "e", ".", "c", "o", "m", "/", "e", "m", "b", "e", "d", "/">>,
       <<"y", "o", "u", "t", "u", "b", "e", ".", "c", "o", "m", "/", "v", "/">> >>

\* the pattern matches s at position i: its prefix, then IdLength identifier characters
MatchesAt(prefix, s, i) ==
    /\ i + Len(prefix) + IdLength - 1 <= Len(s)
    /\ \A k \in 1..Len(prefix) : s[i + k - 1] = prefix[k]
    /\ \A k \in 1..IdLength : s[i + Len(prefix) + k - 1] \in IdChars

\* pattern.test(url): an unanchored search
Test(prefix, s) == \E i \in 1..Len(s) : MatchesAt(prefix, s, i)

validateYouTubeUrl(u) == \E p \in 1..Len(patterns) : Test(patterns[p], u)

-----------------------------------------------------------------------------
(* The state after the page is mounted *)

InFlight(caller, req) == [caller |-> caller, request |-> req, live |-> TRUE]

\* the state of a freshly mounted AnalysisResults
ResultsInit ==
    /\ activeTab = "overview"
    /\ query = <<>>
    /\ queryResponse = Some("")
    /\ queryLoading = FALSE
    /\ searchTerm = ""

InitOf(a) ==
    /\ app = a
    /\ settled = None
    \* VideoAnalyzer's mount effect has called getSupportedLanguages
    /\ net = IF a = "advanced"
             THEN <<InFlight("VideoAnalyzer", getSupportedLanguages_request)>>
             ELSE <<>>
    /\ loadingLanguages = (a = "advanced")
    /\ analysisData = None
    /\ loading = FALSE
    /\ error = None
    /\ selectedLanguage = "en"
    /\ url = <<>>
    /\ outputLanguage = "en"
    /\ videoLanguageHint = ""
    /\ supportedLanguages = <<>>
    /\ isValidUrl = TRUE
    /\ showAdvancedOptions = FALSE
    /\ ResultsInit
    /\ L_inputUrl = <<>>
    /\ L_responseText = ""
    /\ L_transcript = <<>>
    /\ L_loading = FALSE
    /\ L_activeAgent = "agent1"
    /\ L_userQuery = <<>>
    /\ L_queryResponse = ""
    \* Tabs' useState(defaultValue), the defaultValue being App's activeAgent
    /\ Tabs_activeTab = "agent1"
    /\ Tabs_clicked = None

Init == \E a \in {"none", "advanced", "legacy"} : InitOf(a)

-----------------------------------------------------------------------------
(* services/api.js called directly *)

\* the requests still in flight once request i has settled: a failed request
\* is not sent again
AfterSettleResend(n, i, outcome) ==
    IF outcome.ok THEN RemoveAt(n, i) ELSE Append(RemoveAt(n, i), n[i])

AfterSettle(n, i, outcome) == RemoveAt(n, i)

Call(req) ==
    /\ app = "none"
    /\ Len(net) < MaxInFlight
    /\ net' = Append(net, InFlight("direct", req))
    /\ UNCHANGED <<settled, app, appVars, analyzerVars, resultsVars, legacyVars>>

Call_getSupportedLanguages == Call(getSupportedLanguages_request)

Call_analyzeVideoAdvanced(u, outLang, hint) ==
    Call(analyzeVideoAdvanced_request(u, outLang, hint))

Call_queryTranscriptAdvanced(t, q, outLang, queryLang) ==
    Call(queryTranscriptAdvanced_request(t, q, outLang, queryLang))

Call_checkApiHealth == Call(checkApiHealth_request)

\* what the accessor that sent req hands back when the request ends in outcome
Accessor(req, outcome) ==
    CASE req.url = "/api/languages" -> getSupportedLanguages(outcome)
      [] req.url = "/api/advanced-summary" -> analyzeVideoAdvanced(outcome)
      [] req.url = "/api/advanced-query" -> queryTranscriptAdvanced(outcome)
      [] req.url = "/health" -> checkApiHealth(outcome)

Direct_Settles(i, outcome) ==
    /\ app = "none"
    /\ net[i].caller = "direct"
    /\ net' = AfterSettle(net, i, outcome)
    /\ settled' = Some([url |-> net[i].request.url, outcome |-> outcome,
                        rejection |-> Intercepted(outcome),
                        result |-> Accessor(net[i].request, outcome)])
    /\ UNCHANGED <<app, appVars, analyzerVars, resultsVars, legacyVars>>

-----------------------------------------------------------------------------
(* App.jsx of the advanced page *)

\* AnalysisResults is rendered only while there is a result
Mounted == analysisData # None

\* requests whose component has been unmounted: its setState calls do nothing
Orphaned(n) ==
    [i \in DOMAIN n |->
        IF n[i].caller = "AnalysisResults" THEN [n[i] EXCEPT !.live = FALSE] ELSE n[i]]

\* err.message || 'Failed to analyze video'
MessageOr(message, fallback) ==
    IF \A k \in DOMAIN message : message[k] = "" THEN fallback ELSE message

handleAnalyzeVideoKeepsResult(u, outLang, hint) ==
    /\ Len(net) < MaxInFlight
    /\ loading' = TRUE
    /\ error' = None
    /\ UNCHANGED analysisData
    /\ selectedLanguage' = OrDefault(outLang, "en")
    /\ UNCHANGED resultsVars
    /\ net' = Append(net,
                     InFlight("App", analyzeVideoAdvanced_request(
                                         u, Some(OrDefault(outLang, "en")), hint)))

handleAnalyzeVideoKeepsBanner(u, outLang, hint) ==
    /\ Len(net) < MaxInFlight
    /\ loading' = TRUE
    /\ UNCHANGED error
    /\ analysisData' = None
    /\ selectedLanguage' = OrDefault(outLang, "en")
    /\ activeTab' = "overview"
    /\ query' = <<>>
    /\ queryResponse' = Some("")
    /\ queryLoading' = FALSE
    /\ searchTerm' = ""
    /\ net' = Append(Orphaned(net),
                     InFlight("App", analyzeVideoAdvanced_request(
                                         u, Some(OrDefault(outLang, "en")), hint)))

handleAnalyzeVideo(u, outLang, hint) ==
    /\ Len(net) < MaxInFlight
    /\ loading' = TRUE
    /\ error' = None
    /\ analysisData' = None
    /\ selectedLanguage' = OrDefault(outLang, "en")
    \* the results viewer is unmounted with the result
    /\ activeTab' = "overview"
    /\ query' = <<>>
    /\ queryResponse' = Some("")
    /\ queryLoading' = FALSE
    /\ searchTerm' = ""
    /\ net' = Append(Orphaned(net),
                     InFlight("App", analyzeVideoAdvanced_request(
                                         u, Some(OrDefault(outLang, "en")), hint)))

AnalyzeSettlesFixedMessage(i, outcome) ==
    /\ app = "advanced"
    /\ net[i].caller = "App"
    /\ net' = AfterSettle(net, i, outcome)
    /\ LET r == analyzeVideoAdvanced(outcome)
       IN  IF r.threw
           THEN /\ error' = Some(<<"Failed to analyze video">>)
                /\ UNCHANGED analysisData
           ELSE /\ analysisData' = Some(r.value)
                /\ UNCHANGED error
    /\ loading' = FALSE
    /\ UNCHANGED <<settled, app, selectedLanguage, analyzerVars, resultsVars, legacyVars>>

AnalyzeSettlesNoFinally(i, outcome) ==
    /\ app = "advanced"
    /\ net[i].caller = "App"
    /\ net' = AfterSettle(net, i, outcome)
    /\ LET r == analyzeVideoAdvanced(outcome)
       IN  IF r.threw
           THEN /\ error' = Some(MessageOr(r.value.message, <<"Failed to analyze video">>))
                /\ UNCHANGED <<analysisData, loading>>
           ELSE /\ analysisData' = Some(r.value)
                /\ loading' = FALSE
                /\ UNCHANGED error
    /\ UNCHANGED <<settled, app, selectedLanguage, analyzerVars, resultsVars, legacyVars>>

AnalyzeSettlesLastWins(i, outcome) ==
    /\ app = "advanced"
    /\ net[i].caller = "App"
    /\ net' = AfterSettle(net, i, outcome)
    /\ LET r == analyzeVideoAdvanced(outcome)
       IN  IF r.threw
           THEN /\ error' = Some(MessageOr(r.value.message, <<"Failed to analyze video">>))
                /\ analysisData' = None
           ELSE /\ analysisData' = Some(r.value)
                /\ error' = None
    /\ loading' = FALSE
    /\ UNCHANGED <<settled, app, selectedLanguage, analyzerVars, resultsVars, legacyVars>>

\* the continuation of handleAnalyzeVideo after its await
AnalyzeSettles(i, outcome) ==
    /\ app = "advanced"
    /\ net[i].caller = "App"
    /\ net' = AfterSettle(net, i, outcome)
    /\ LET r == analyzeVideoAdvanced(outcome)
       IN  IF r.threw
           THEN /\ error' = Some(MessageOr(r.value.message, <<"Failed to analyze video">>))
                /\ UNCHANGED analysisData
           ELSE /\ analysisData' = Some(r.value)
                /\ UNCHANGED error
    /\ loading' = FALSE
    /\ UNCHANGED <<settled, app, selectedLanguage, analyzerVars, resultsVars, legacyVars>>

\* what App.handleQuery hands to AnalysisResults once the request has settled
App_handleQuery(outcome) ==
    LET r == queryTranscriptAdvanced(outcome)
    IN  IF r.threw
        THEN Throw([message |-> <<"Failed to query transcript">>])
        ELSE Return(Some(r.value.response))

-----------------------------------------------------------------------------
(* components/VideoAnalyzer.jsx *)

\* the continuation of loadLanguages (the mount effect) after its await
LanguagesSettle(i, outcome) ==
    /\ app = "advanced"
    /\ net[i].caller = "VideoAnalyzer"
    /\ net' = AfterSettle(net, i, outcome)
    /\ LET r == getSupportedLanguages(outcome)
       IN  IF r.threw
           THEN UNCHANGED supportedLanguages
           ELSE supportedLanguages' = r.value.languages
    /\ loadingLanguages' = FALSE
    /\ UNCHANGED <<settled, app, appVars, url, outputLanguage, videoLanguageHint,
                   isValidUrl, showAdvancedOptions, resultsVars, legacyVars>>

handleUrlChange(newUrl) ==
    /\ app = "advanced"
    /\ url' = newUrl
    /\ isValidUrl' = ~(newUrl # <<>> /\ ~validateYouTubeUrl(newUrl))
    /\ UNCHANGED <<apiVars, app, appVars, outputLanguage, videoLanguageHint,
                   supportedLanguages, loadingLanguages, showAdvancedOptions,
                   resultsVars, legacyVars>>

\* the options of the two language selects: the codes of supportedLanguages
OfferedCodes == {supportedLanguages[k].code : k \in DOMAIN supportedLanguages}

\* the options of the output-language select: the popular languages found in
\* the list, in the order of popularLanguages, then the other languages, each
\* option showing the display string of its language
popularLanguages == <<"en", "es", "fr", "de", "ja", "ko", "zh", "hi", "ar", "pt">>

getLanguageByCode(code) ==
    LET found == {k \in DOMAIN supportedLanguages : supportedLanguages[k].code = code}
    IN  IF found = {} THEN None
        ELSE Some(supportedLanguages[CHOOSE k \in found : \A j \in found : k <= j])

popularLangs ==
    LET upTo[i \in 0..Len(popularLanguages)] ==
            IF i = 0 THEN <<>>
            ELSE IF getLanguageByCode(popularLanguages[i]) = None THEN upTo[i - 1]
            ELSE Append(upTo[i - 1], Get(getLanguageByCode(popularLanguages[i])))
    IN  upTo[Len(popularLanguages)]

IsOther(lang) == \A i \in DOMAIN popularLanguages : popularLanguages[i] # lang.code

otherLangs == SelectSeq(supportedLanguages, IsOther)

Option(lang) == [value |-> lang.code, text |-> lang.display]

OutputLanguageOptions ==
    IF loadingLanguages
    THEN <<[value |-> "Loading languages...", text |-> <<"Loading languages...">>]>>
    ELSE [k \in 1..(Len(popularLangs) + Len(otherLangs)) |->
             Option((popularLangs \o otherLangs)[k])]

setOutputLanguageSetsSelected(code) ==
    /\ app = "advanced"
    /\ code \in OfferedCodes
    /\ outputLanguage' = code
    /\ selectedLanguage' = code
    /\ UNCHANGED <<apiVars, app, analysisData, loading, error, url, videoLanguageHint,
                   supportedLanguages, isValidUrl, loadingLanguages, showAdvancedOptions,
                   resultsVars, legacyVars>>

setOutputLanguage(code) ==
    /\ app = "advanced"
    /\ code \in OfferedCodes
    /\ outputLanguage' = code
    /\ UNCHANGED <<apiVars, app, appVars, url, videoLanguageHint, supportedLanguages,
                   isValidUrl, loadingLanguages, showAdvancedOptions, resultsVars,
                   legacyVars>>

toggleAdvancedOptions ==
    /\ app = "advanced"
    /\ showAdvancedOptions' = ~showAdvancedOptions
    /\ UNCHANGED <<apiVars, app, appVars, url, outputLanguage, videoLanguageHint,
                   supportedLanguages, isValidUrl, loadingLanguages, resultsVars,
                   legacyVars>>

\* the hint select is rendered with the advanced options only
setVideoLanguageHint(code) ==
    /\ app = "advanced"
    /\ showAdvancedOptions
    /\ code \in OfferedCodes \cup {""}
    /\ videoLanguageHint' = code
    /\ UNCHANGED <<apiVars, app, appVars, url, outputLanguage, supportedLanguages,
                   isValidUrl, loadingLanguages, showAdvancedOptions, resultsVars,
                   legacyVars>>

handleSubmitSkipsValidation ==
    /\ app = "advanced"
    /\ IF Trim(url) = <<>>
       THEN /\ isValidUrl' = FALSE
            /\ UNCHANGED <<apiVars, appVars, resultsVars>>
       ELSE /\ isValidUrl' = TRUE
            /\ handleAnalyzeVideo(url, Some(outputLanguage),
                                  IF videoLanguageHint = "" THEN None
                                  ELSE Some(videoLanguageHint))
            /\ UNCHANGED settled
    /\ UNCHANGED <<app, url, outputLanguage, videoLanguageHint, supportedLanguages,
                   loadingLanguages, showAdvancedOptions, legacyVars>>

\* the form's onSubmit
handleSubmit ==
    /\ app = "advanced"
    /\ IF Trim(url) = <<>> \/ ~validateYouTubeUrl(url)
       THEN /\ isValidUrl' = FALSE
            /\ UNCHANGED <<apiVars, appVars, resultsVars>>
       ELSE /\ isValidUrl' = TRUE
            \* onAnalyze(url, outputLanguage, videoLanguageHint || null)
            /\ handleAnalyzeVideo(url, Some(outputLanguage),
                                  IF videoLanguageHint = "" THEN None
                                  ELSE Some(videoLanguageHint))
            /\ UNCHANGED settled
    /\ UNCHANGED <<app, url, outputLanguage, videoLanguageHint, supportedLanguages,
                   loadingLanguages, showAdvancedOptions, legacyVars>>

\* the disabled attributes of the form's controls
UrlInputEnabled == ~loading
SelectsEnabled == ~(loading \/ loadingLanguages)
SubmitEnabledWhileLoading == ~(Trim(url) = <<>> \/ ~isValidUrl \/ loadingLanguages)
SubmitEnabled == ~(loading \/ Trim(url) = <<>> \/ ~isValidUrl \/ loadingLanguages)

-----------------------------------------------------------------------------
(* components/AnalysisResults.jsx *)

tabs == <<"overview", "language-info", "sentiment", "themes", "wordcloud",
          "transcript", "chat">>

Apology == "Sorry, I couldn't process your question. Please try again."

setActiveTabStuckInChat(id) ==
    /\ app = "advanced"
    /\ Mounted
    /\ activeTab # "chat"
    /\ activeTab' = id
    /\ UNCHANGED <<apiVars, app, appVars, analyzerVars, query, queryResponse,
                   queryLoading, searchTerm, legacyVars>>

setActiveTabClearsSearch(id) ==
    /\ app = "advanced"
    /\ Mounted
    /\ activeTab' = id
    /\ searchTerm' = ""
    /\ UNCHANGED <<apiVars, app, appVars, analyzerVars, query, queryResponse,
                   queryLoading, legacyVars>>

setActiveTab(id) ==
    /\ app = "advanced"
    /\ Mounted
    /\ activeTab' = id
    /\ UNCHANGED <<apiVars, app, appVars, analyzerVars, query, queryResponse,
                   queryLoading, searchTerm, legacyVars>>

\* the question box is rendered in the chat tab
setQuery(q) ==
    /\ app = "advanced"
    /\ Mounted
    /\ activeTab = "chat"
    /\ query' = q
    /\ UNCHANGED <<apiVars, app, appVars, analyzerVars, activeTab, queryResponse,
                   queryLoading, searchTerm, legacyVars>>

\* terms with which `(${term})` is no regular expression: new RegExp throws
InvalidPatterns == {"("}

\* highlightSearchTerm: the text itself when the term is empty; else the text
\* with every match of the term, whatever its case, wrapped in a mark element,
\* or the SyntaxError of new RegExp
highlightSearchTerm(text, term) ==
    IF term = "" THEN Return(text)
    ELSE IF term \in InvalidPatterns THEN Throw([name |-> "SyntaxError"])
    ELSE Return([replace |-> text,
                 regex |-> <<"(", term, ")">>,
                 flags |-> "gi",
                 by |-> "<mark class=\"bg-yellow-200\">$1</mark>"])

\* data.transcript || 'No transcript available'
TranscriptOrPlaceholder ==
    IF Get(analysisData).transcript = <<>> THEN <<"No transcript available">>
    ELSE Get(analysisData).transcript

\* what the transcript tab renders
RenderedTranscript == highlightSearchTerm(TranscriptOrPlaceholder, searchTerm)

setSearchTermRewritesTranscript(term) ==
    /\ app = "advanced"
    /\ Mounted
    /\ activeTab = "transcript"
    /\ searchTerm' = term
    /\ analysisData' =
           Some([Get(analysisData) EXCEPT
                    !.transcript = IF term = "" THEN @ ELSE <<"<mark>", term, "</mark>">>])
    /\ UNCHANGED <<apiVars, app, loading, error, selectedLanguage, analyzerVars,
                   activeTab, query, queryResponse, queryLoading, legacyVars>>

\* the search box is rendered in the transcript tab
setSearchTerm(term) ==
    /\ app = "advanced"
    /\ Mounted
    /\ activeTab = "transcript"
    /\ searchTerm' = term
    /\ UNCHANGED <<apiVars, app, appVars, analyzerVars, activeTab, query,
                   queryResponse, queryLoading, legacyVars>>

AnalysisResults_handleQueryUnguarded ==
    /\ app = "advanced"
    /\ Mounted
    /\ activeTab = "chat"
    /\ IF Trim(query) = <<>>
       THEN UNCHANGED <<net, queryLoading, queryResponse>>
       ELSE /\ Len(net) < MaxInFlight
            /\ queryLoading' = TRUE
            /\ net' = Append(net,
                             InFlight("AnalysisResults",
                                      queryTranscriptAdvanced_request(
                                          Get(analysisData).transcript, query,
                                          Some(selectedLanguage), None)))
            /\ UNCHANGED queryResponse
    /\ UNCHANGED <<settled, app, appVars, analyzerVars, activeTab, query, searchTerm,
                   legacyVars>>

\* the chat form's onSubmit, with App.handleQuery up to its await
AnalysisResults_handleQuery ==
    /\ app = "advanced"
    /\ Mounted
    /\ activeTab = "chat"
    /\ IF Trim(query) = <<>>
       THEN UNCHANGED <<net, queryLoading, queryResponse>>
       ELSE IF Get(analysisData).transcript = <<>>
       \* App.handleQuery returns null without a request: the await ends at once
       THEN /\ queryResponse' = None
            /\ UNCHANGED <<net, queryLoading>>
       ELSE /\ Len(net) < MaxInFlight
            /\ queryLoading' = TRUE
            /\ net' = Append(net,
                             InFlight("AnalysisResults",
                                      queryTranscriptAdvanced_request(
                                          Get(analysisData).transcript, query,
                                          Some(selectedLanguage), None)))
            /\ UNCHANGED queryResponse
    /\ UNCHANGED <<settled, app, appVars, analyzerVars, activeTab, query, searchTerm,
                   legacyVars>>

QuerySettlesAccumulates(i, outcome) ==
    /\ app = "advanced"
    /\ net[i].caller = "AnalysisResults"
    /\ net' = AfterSettle(net, i, outcome)
    /\ LET r == App_handleQuery(outcome)
       IN  IF net[i].live
           THEN /\ queryResponse' = IF r.threw THEN Some(Apology)
                                     ELSE IF queryResponse = Some("") THEN r.value
                                     ELSE queryResponse \o r.value
                /\ queryLoading' = FALSE
           ELSE UNCHANGED <<queryResponse, queryLoading>>
    /\ UNCHANGED <<settled, app, appVars, analyzerVars, activeTab, query, searchTerm,
                   legacyVars>>

QuerySettlesAfterUnmount(i, outcome) ==
    /\ app = "advanced"
    /\ net[i].caller = "AnalysisResults"
    /\ net' = AfterSettle(net, i, outcome)
    /\ LET r == App_handleQuery(outcome)
       IN  /\ queryResponse' = IF r.threw THEN Some(Apology) ELSE r.value
           /\ queryLoading' = FALSE
    /\ UNCHANGED <<settled, app, appVars, analyzerVars, activeTab, query, searchTerm,
                   legacyVars>>

\* the continuation of AnalysisResults.handleQuery after its await
QuerySettles(i, outcome) ==
    /\ app = "advanced"
    /\ net[i].caller = "AnalysisResults"
    /\ net' = AfterSettle(net, i, outcome)
    /\ LET r == App_handleQuery(outcome)
       IN  IF net[i].live
           THEN /\ queryResponse' = IF r.threw THEN Some(Apology) ELSE r.value
                /\ queryLoading' = FALSE
           ELSE UNCHANGED <<queryResponse, queryLoading>>
    /\ UNCHANGED <<settled, app, appVars, analyzerVars, activeTab, query, searchTerm,
                   legacyVars>>

\* the disabled attributes of the chat form's controls
QuestionBoxEnabled == ~queryLoading
AskEnabled == ~(queryLoading \/ Trim(query) = <<>>)

\* the three optional parts of the view, each behind its guard:
\* data.meta?.thumbnail && <img>
Thumbnail(data) ==
    IF data.meta # None /\ Get(data.meta).thumbnail # None
    THEN Return(<<"img", Get(Get(data.meta).thumbnail)>>)
    ELSE Return(<<>>)

\* data.themes?.keywords && data.themes.keywords.map(...)
Keywords(data) ==
    IF data.themes # None /\ Get(data.themes).keywords # None
    THEN Return(<<"keywords", Get(Get(data.themes).keywords)>>)
    ELSE Return(<<>>)

\* data.wordcloud_b64 ? <img> : 'Word cloud not available'
WordCloud(data) ==
    IF Truthy(data.wordcloud_b64)
    THEN Return(<<"img", Get(data.wordcloud_b64)>>)
    ELSE Return(<<"Word cloud not available">>)

\* the panel of the active tab
Panel(tab, data, term) ==
    CASE tab = "themes" -> Keywords(data)
      [] tab = "wordcloud" -> WordCloud(data)
      [] tab = "transcript" ->
            highlightSearchTerm(IF data.transcript = <<>>
                                THEN <<"No transcript available">>
                                ELSE data.transcript, term)
      [] OTHER -> Return(<<>>)

\* one render of AnalysisResults: the header, then the panel of the active
\* tab; it throws when a part of it throws
Render(tab, data, term) ==
    IF Thumbnail(data).threw THEN Thumbnail(data) ELSE Panel(tab, data, term)

\* the render of the viewer as it stands has thrown
RenderThrows ==
    /\ app = "advanced"
    /\ Mounted
    /\ Render(activeTab, Get(analysisData), searchTerm).threw

-----------------------------------------------------------------------------
(* frontend/src/App.jsx: the legacy page *)

agents == [agent1 |-> "gemini", agent2 |-> "gpt-3.5-turbo", agent3 |-> "claude"]

\* res.data.field || ""
TextOr(field, fallback) == IF Truthy(field) THEN Get(field) ELSE fallback
TranscriptOr(field, fallback) ==
    IF field # None /\ Get(field) # <<>> THEN Get(field) ELSE fallback

L_setInputUrl(u) ==
    /\ app = "legacy"
    /\ L_inputUrl' = u
    /\ UNCHANGED <<apiVars, app, appVars, analyzerVars, resultsVars, tabsVars, L_responseText,
                   L_transcript, L_loading, L_activeAgent, L_userQuery, L_queryResponse>>

L_setUserQuery(q) ==
    /\ app = "legacy"
    /\ L_userQuery' = q
    /\ UNCHANGED <<apiVars, app, appVars, analyzerVars, resultsVars, tabsVars, L_inputUrl,
                   L_responseText, L_transcript, L_loading, L_activeAgent,
                   L_queryResponse>>

L_handleSubmit ==
    /\ app = "legacy"
    /\ IF L_inputUrl = <<>>
       THEN UNCHANGED <<net, L_loading>>
       ELSE /\ Len(net) < MaxInFlight
            /\ L_loading' = TRUE
            /\ net' = Append(net,
                             InFlight("LegacyApp.handleSubmit",
                                      [method |-> "POST",
                                       url |-> "http://localhost:8000/api/summary",
                                       data |-> Some([url |-> L_inputUrl,
                                                      agent |-> agents[L_activeAgent]])]))
    /\ UNCHANGED <<settled, app, appVars, analyzerVars, resultsVars, tabsVars, L_inputUrl,
                   L_responseText, L_transcript, L_activeAgent, L_userQuery,
                   L_queryResponse>>

L_SummarySettlesInsideTry(i, outcome) ==
    /\ app = "legacy"
    /\ net[i].caller = "LegacyApp.handleSubmit"
    /\ net' = AfterSettle(net, i, outcome)
    /\ IF outcome.ok
       THEN /\ L_responseText' = TextOr(outcome.data.summary, "")
            /\ L_transcript' = TranscriptOr(outcome.data.transcript, <<>>)
            /\ L_loading' = FALSE
       ELSE UNCHANGED <<L_responseText, L_transcript, L_loading>>
    /\ UNCHANGED <<settled, app, appVars, analyzerVars, resultsVars, tabsVars, L_inputUrl,
                   L_activeAgent, L_userQuery, L_queryResponse>>

\* the continuation of the legacy handleSubmit after its await
L_SummarySettles(i, outcome) ==
    /\ app = "legacy"
    /\ net[i].caller = "LegacyApp.handleSubmit"
    /\ net' = AfterSettle(net, i, outcome)
    /\ IF outcome.ok
       THEN /\ L_responseText' = TextOr(outcome.data.summary, "")
            /\ L_transcript' = TranscriptOr(outcome.data.transcript, <<>>)
       \* the catch block only logs
       ELSE UNCHANGED <<L_responseText, L_transcript>>
    /\ L_loading' = FALSE
    /\ UNCHANGED <<settled, app, appVars, analyzerVars, resultsVars, tabsVars, L_inputUrl,
                   L_activeAgent, L_userQuery, L_queryResponse>>

L_handleQuery ==
    /\ app = "legacy"
    /\ IF L_userQuery = <<>> \/ L_transcript = <<>>
       THEN UNCHANGED <<net, L_loading>>
       ELSE /\ Len(net) < MaxInFlight
            /\ L_loading' = TRUE
            /\ net' = Append(net,
                             InFlight("LegacyApp.handleQuery",
                                      [method |-> "POST",
                                       url |-> "http://localhost:8000/api/query",
                                       data |-> Some([transcript |-> L_transcript,
                                                      query |-> L_userQuery])]))
    /\ UNCHANGED <<settled, app, appVars, analyzerVars, resultsVars, tabsVars, L_inputUrl,
                   L_responseText, L_transcript, L_activeAgent, L_userQuery,
                   L_queryResponse>>

\* the continuation of the legacy handleQuery after its await
L_QuerySettles(i, outcome) ==
    /\ app = "legacy"
    /\ net[i].caller = "LegacyApp.handleQuery"
    /\ net' = AfterSettle(net, i, outcome)
    /\ IF outcome.ok
       THEN L_queryResponse' = TextOr(outcome.data.response, "")
       ELSE UNCHANGED L_queryResponse
    /\ L_loading' = FALSE
    /\ UNCHANGED <<settled, app, appVars, analyzerVars, resultsVars, tabsVars, L_inputUrl,
                   L_responseText, L_transcript, L_activeAgent, L_userQuery>>

\* components/ui/button: the Button hands its disabled attribute to the button
\* element it renders, which takes clicks only while it is not disabled
Button(disabled) == ~disabled

\* the disabled attributes of the two buttons
L_SummarizeEnabled == Button(L_loading)
L_AskEnabled == Button(L_loading \/ L_transcript = <<>>)

\* components/ui/tabs.jsx as App uses it: a TabsList holding three triggers,
\* then three contents, one per agent
AgentValues == <<"agent1", "agent2", "agent3">>

\* Tabs takes defaultValue, children and className: the onValueChange App
\* passes (setActiveAgent) is not among them. React.cloneElement gives
\* activeTab and onValueChange (Tabs' own setActiveTab) to each direct child:
\* the TabsList and the three TabsContent
Tabs_childProps ==
    [activeTab |-> Some(Tabs_activeTab), onValueChange |-> Some("setActiveTab")]

\* TabsList takes children only and renders them as App wrote them, with
\* value and children: what Tabs gave the list does not reach the triggers
TabsList_childProps(props) == [activeTab |-> None, onValueChange |-> None]

TabsTrigger_props == TabsList_childProps(Tabs_childProps)

\* activeTab === value
TabsTrigger_isActive(value) == TabsTrigger_props.activeTab = Some(value)

\* onClick={() => onValueChange(value)}
TabsTrigger_onClick(value) ==
    /\ app = "legacy"
    /\ Tabs_clicked' = Some(value)
    /\ IF TabsTrigger_props.onValueChange = None
       \* undefined is called: the handler throws a TypeError and sets nothing
       THEN UNCHANGED Tabs_activeTab
       ELSE Tabs_activeTab' = value
    /\ UNCHANGED <<apiVars, app, appVars, analyzerVars, resultsVars, L_inputUrl,
                   L_responseText, L_transcript, L_loading, L_activeAgent,
                   L_userQuery, L_queryResponse>>

\* if (value !== activeTab) return null
TabsContent_visible(value) == Tabs_childProps.activeTab = Some(value)

VisibleContents ==
    {AgentValues[k] : k \in {j \in DOMAIN AgentValues : TabsContent_visible(AgentValues[j])}}

-----------------------------------------------------------------------------
(* The pages driven through their controls, the accessors called directly *)

DirectUrls == {UrlShort}
DirectLanguages == {None, Some("ko")}
DirectTranscripts == {TranscriptOf(UrlShort)}
DirectQuestions == {<<"w", "h", "y", "?">>}

UseApi ==
    \/ Call_getSupportedLanguages
    \/ \E u \in DirectUrls, l \in DirectLanguages :
          Call_analyzeVideoAdvanced(u, l, l)
    \/ \E t \in DirectTranscripts, q \in DirectQuestions :
          Call_queryTranscriptAdvanced(t, q, None, None)
    \/ Call_checkApiHealth
    \/ \E i \in DOMAIN net : \E o \in Outcomes(net[i].request, RawErrors) :
          Direct_Settles(i, o)

TypeUrl == \E u \in PageUrls : UrlInputEnabled /\ handleUrlChange(u)
PickOutputLanguage == \E c \in LanguageChoices : SelectsEnabled /\ setOutputLanguage(c)
SubmitForm == SubmitEnabled /\ handleSubmit
PickTab == \E t \in 1..Len(tabs) : setActiveTab(tabs[t])
TypeQuestion == \E q \in Questions : QuestionBoxEnabled /\ setQuery(q)
TypeSearch == \E t \in SearchTerms : setSearchTerm(t)
Ask == AskEnabled /\ AnalysisResults_handleQuery

AdvancedSettles ==
    \E i \in DOMAIN net : \E o \in Outcomes(net[i].request, PageErrors) :
        \/ LanguagesSettle(i, o)
        \/ AnalyzeSettles(i, o)
        \/ QuerySettles(i, o)

UseAdvanced ==
    \/ TypeUrl
    \/ PickOutputLanguage
    \/ SubmitForm
    \/ PickTab
    \/ TypeQuestion
    \/ Ask
    \/ AdvancedSettles

L_TypeUrl == \E u \in PageUrls : L_setInputUrl(u)
L_TypeQuestion == \E q \in Questions : L_setUserQuery(q)
L_Summarize == L_SummarizeEnabled /\ L_handleSubmit
L_Ask == L_AskEnabled /\ L_handleQuery

LegacySettles ==
    \E i \in DOMAIN net : \E o \in Outcomes(net[i].request, PageErrors) :
        \/ L_SummarySettles(i, o)
        \/ L_QuerySettles(i, o)

UseLegacy ==
    \/ L_TypeUrl
    \/ L_TypeQuestion
    \/ L_Summarize
    \/ L_Ask
    \/ LegacySettles

Next == UseApi \/ UseAdvanced \/ UseLegacy

Spec == Init /\ [][Next]_vars

-----------------------------------------------------------------------------
(* The analyzer form driven through its handlers: the submit event reaches    *)
(* handleSubmit whatever the button's disabled attribute says (Enter in the   *)
(* URL field, requestSubmit), while no analysis is running                    *)

FormSettles ==
    \E i \in DOMAIN net : \E o \in Outcomes(net[i].request, PageErrors) :
        \/ LanguagesSettle(i, o)
        \/ AnalyzeSettles(i, o)

SubmitEvent == UrlInputEnabled /\ handleSubmit

DriveForm ==
    \/ \E u \in AllUrls : UrlInputEnabled /\ handleUrlChange(u)
    \/ \E c \in LanguageChoices : SelectsEnabled /\ setOutputLanguage(c)
    \/ toggleAdvancedOptions
    \/ \E c \in HintChoices : SelectsEnabled /\ setVideoLanguageHint(c)
    \/ SubmitEvent
    \/ FormSettles

SpecForm == InitOf("advanced") /\ [][DriveForm]_vars

-----------------------------------------------------------------------------
(* The advanced page with the viewer's transcript search driven too *)

UseViewer == UseAdvanced \/ TypeSearch

SpecViewer == InitOf("advanced") /\ [][UseViewer]_vars

\* every request settles: the client's timeout of 90 s rejects the ones the
\* backend leaves unanswered
SpecFormLive == SpecForm /\ WF_vars(FormSettles)

-----------------------------------------------------------------------------
(* The analyzer form driven through its handlers with no regard for the       *)
(* disabled attributes: handleUrlChange, handleSubmit and handleAnalyzeVideo  *)
(* do not test loading themselves, so a submit event dispatched while a call  *)
(* is running starts a second call beside it                                  *)

OverlapUrls == {UrlShort, UrlWatch}

DriveOverlap ==
    \/ \E u \in OverlapUrls : handleUrlChange(u)
    \/ handleSubmit
    \/ FormSettles

SpecOverlap == InitOf("advanced") /\ [][DriveOverlap]_vars

-----------------------------------------------------------------------------
(* The results viewer shown with a result of the backend, any of the optional *)
(* fields absent, its tabs selected and its transcript searched until a       *)
(* render throws                                                              *)

\* analysis results: the thumbnail, the keyword list and the word-cloud image
\* each present or absent, with or without the object that holds them
RenderableResults ==
    {[video |-> UrlShort, transcript |-> t, output_language |-> "en",
      meta |-> m, themes |-> th, wordcloud_b64 |-> w] :
        t \in TranscriptsOf(UrlShort),
        m \in {None, Some([thumbnail |-> None]), Some([thumbnail |-> Some("thumb.jpg")])},
        th \in {None, Some([keywords |-> None]), Some([keywords |-> Some(<<"ai", "video">>)])},
        w \in {None, Some("iVBORw0KGgo")}}

RenderSearchTerms == SearchTerms \cup InvalidPatterns

\* the page once the languages are loaded and an analysis has succeeded
InitRender ==
    /\ app = "advanced"
    /\ settled = None
    /\ net = <<>>
    /\ loadingLanguages = FALSE
    /\ analysisData \in {Some(d) : d \in RenderableResults}
    /\ loading = FALSE
    /\ error = None
    /\ selectedLanguage = "en"
    /\ url = UrlShort
    /\ outputLanguage = "en"
    /\ videoLanguageHint = ""
    /\ supportedLanguages = BackendCatalog.languages
    /\ isValidUrl = TRUE
    /\ showAdvancedOptions = FALSE
    /\ ResultsInit
    /\ L_inputUrl = <<>>
    /\ L_responseText = ""
    /\ L_transcript = <<>>
    /\ L_loading = FALSE
    /\ L_activeAgent = "agent1"
    /\ L_userQuery = <<>>
    /\ L_queryResponse = ""
    \* Tabs' useState(defaultValue), the defaultValue being App's activeAgent
    /\ Tabs_activeTab = "agent1"
    /\ Tabs_clicked = None

TypeAnySearch == \E t \in RenderSearchTerms : setSearchTerm(t)

\* a render that throws takes the viewer down: nothing of it is left to use
DriveRender ==
    \/ ~RenderThrows /\ PickTab
    \/ ~RenderThrows /\ TypeAnySearch

SpecRender == InitRender /\ [][DriveRender]_vars

-----------------------------------------------------------------------------
(* The legacy page with its agent tabs clicked too *)

ClickTrigger == \E k \in DOMAIN AgentValues : TabsTrigger_onClick(AgentValues[k])

UseTabs == UseLegacy \/ ClickTrigger

SpecTabs == InitOf("legacy") /\ [][UseTabs]_vars

-----------------------------------------------------------------------------
(* Properties *)

\* the URLs typed that hold one of the four accepted shapes, and those that do not
AcceptedUrls == {UrlWatch, UrlShort, UrlEmbed, UrlV, UrlPadded}
RejectedUrls == {UrlTenChars, UrlBadChar, UrlNoDot, UrlOtherHost, UrlNotAUrl,
                 UrlBlank, UrlEmpty}

\* C1: submitting the form with a URL that is empty, blank or of none of the
\* four accepted shapes never calls onAnalyze (no request is sent, the page's
\* state is untouched) and leaves the inline validation error visible
C1_InvalidSubmitRejected ==
    [][(url \in RejectedUrls /\ handleSubmit) =>
           (/\ net' = net
            /\ UNCHANGED appVars
            /\ isValidUrl' = FALSE)]_vars

\* the empty URL field shows the validation error: only a submission does that
C1_Witness ==
    /\ url = UrlEmpty
    /\ ~isValidUrl
    /\ ~loading
    /\ \A i \in DOMAIN net : net[i].request.url # "/api/advanced-summary"


QueryPaths == {"/api/advanced-query", "http://localhost:8000/api/query"}

\* the transcript the mounted page holds, empty when it holds none
HeldTranscript ==
    CASE app = "advanced" ->
            IF analysisData = None THEN <<>> ELSE Get(analysisData).transcript
      [] app = "legacy" -> L_transcript
      [] OTHER -> <<>>

\* C2: on either page a query request is sent only while the page holds a
\* non-empty transcript, whatever the question, and it carries that transcript
C2_QueryNeedsTranscript ==
    [][(app \in {"advanced", "legacy"}) =>
          (\A i \in DOMAIN net' :
              (i > Len(net) /\ net'[i].request.url \in QueryPaths) =>
                  (/\ HeldTranscript # <<>>
                   /\ Get(net'[i].request.data).transcript = HeldTranscript))]_vars

\* a question was asked about a result whose transcript is empty: App.handleQuery
\* handed back null and no request is in flight
C2_Witness ==
    /\ app = "advanced"
    /\ Mounted
    /\ Get(analysisData).transcript = <<>>
    /\ Trim(query) # <<>>
    /\ queryResponse = None
    /\ net = <<>>

\* C3: on the advanced page no result is held while an analysis call is in
\* flight nor after it has failed (the banner is up): the result of an earlier
\* analysis was cleared at submission and only a later success sets one
C3_NoResultAfterFailure ==
    (app = "advanced" /\ (loading \/ error # None)) => analysisData = None

C3_Witness ==
    /\ app = "advanced"
    /\ error # None
    /\ ~loading
    /\ analysisData = None

\* C4, as claimed: when a summary call of the legacy page fails, the summary text
\* and the transcript of the previous successful call are cleared
C4_LegacyClearsOnFailure ==
    [][(\A i \in DOMAIN net : \A e \in PageErrors :
          L_SummarySettles(i, Failed(e)) =>
              (L_responseText' = "" /\ L_transcript' = <<>>))]_vars

\* C5, as claimed: every failed analysis call and every failed query call of the
\* advanced page puts the message of the propagated error in the banner
C5_BannerOnEveryFailure ==
    [][(\A i \in DOMAIN net : \A e \in PageErrors :
          (AnalyzeSettles(i, Failed(e)) \/ QuerySettles(i, Failed(e))) =>
              error' = Some(OnRejected(e).message))]_vars

\* C5, amended: a failed analysis call puts the message of the propagated error
\* in the banner; a failed query call leaves the banner as it was, and the chat
\* of the viewer that asked shows the fixed apology
C5_BannerOnAnalysisFailure ==
    [][(\A i \in DOMAIN net : \A e \in PageErrors :
          (/\ AnalyzeSettles(i, Failed(e)) =>
                  (error' = Some(OnRejected(e).message) /\ analysisData' = analysisData)
           /\ QuerySettles(i, Failed(e)) =>
                  (/\ error' = error
                   /\ net[i].live => queryResponse' = Some(Apology))))]_vars

\* a failed query call has been answered with the apology, the banner is down
C5_Witness ==
    /\ app = "advanced"
    /\ queryResponse = Some(Apology)
    /\ error = None


\* the last direct call was of the accessor at path and its request failed
DirectCallFailed(path) ==
    /\ settled # None
    /\ Get(settled).url = path
    /\ ~Get(settled).outcome.ok

FallbackCodes == <<"en", "es", "fr", "de", "it", "ja", "ko", "zh", "hi", "ar">>

\* C6: when the catalog request fails, in whatever way, getSupportedLanguages
\* does not throw and hands back the ten built-in languages, total_languages 10
C6_FallbackOnFailure ==
    DirectCallFailed("/api/languages") =>
        LET r == Get(settled).result
        IN  /\ ~r.threw
            /\ Len(r.value.languages) = 10
            /\ [k \in 1..10 |-> r.value.languages[k].code] = FallbackCodes
            /\ r.value.total_languages = 10

\* the catalog request failed with a server error status
C6_Witness ==
    /\ DirectCallFailed("/api/languages")
    /\ Get(settled).outcome.error.response # None

\* C7: a failed request is rejected with one of three errors, chosen in this
\* order: a response was received - the API error with its status, a request
\* object or not; else the request was sent - the network error with the fixed
\* advisory; else the request error wrapping the underlying message
C7_ThreeErrorKinds ==
    (settled # None /\ ~Get(settled).outcome.ok) =>
        LET e == Get(settled).outcome.error
            message == Get(Get(settled).rejection).message
        IN  IF e.response # None
            THEN /\ Len(message) = 4
                 /\ message[1] = "API Error ("
                 /\ message[2] = ToString(Get(e.response).status)
                 /\ message[3] = "): "
            ELSE IF e.request
            THEN message = <<NetworkAdvisory>>
            ELSE message = <<"Request Error: ", e.message>>

\* a response was received and a request object is present too: the API error
C7_Witness ==
    /\ settled # None
    /\ ~Get(settled).outcome.ok
    /\ Get(settled).outcome.error.response # None
    /\ Get(settled).outcome.error.request
    /\ Get(settled).rejection = Some([message |-> <<"API Error (", "404", "): ", "bad url">>])

\* the text that follows the status in an API error, f saying when a field of
\* the error body counts
DetailText(e, Counts(_)) ==
    LET response == Get(e.response)
        detail == IF response.data = None THEN None ELSE Get(response.data).detail
        msg == IF response.data = None THEN None ELSE Get(response.data).message
    IN  IF Counts(detail) THEN Get(detail)
        ELSE IF Counts(msg) THEN Get(msg)
        ELSE e.message

Present(field) == field # None
PresentAndNotEmpty(field) == field # None /\ field # Some("")

ServerErrorSettled ==
    /\ settled # None
    /\ ~Get(settled).outcome.ok
    /\ Get(settled).outcome.error.response # None

\* C8, as claimed: the API error message holds the status and the detail field
\* when present, else the message field when present, else the raw error text
C8_DetailWhenPresent ==
    ServerErrorSettled =>
        LET e == Get(settled).outcome.error
        IN  Get(Get(settled).rejection).message =
                <<"API Error (", ToString(Get(e.response).status), "): ",
                  DetailText(e, Present)>>

\* C8, amended: the API error message holds the status and the detail field
\* when present and not empty, else the message field when present and not
\* empty, else the raw error text
C8_DetailWhenNotEmpty ==
    ServerErrorSettled =>
        LET e == Get(settled).outcome.error
        IN  Get(Get(settled).rejection).message =
                <<"API Error (", ToString(Get(e.response).status), "): ",
                  DetailText(e, PresentAndNotEmpty)>>

\* detail and message were both supplied: detail is the text
C8_Witness ==
    /\ ServerErrorSettled
    /\ Get(Get(settled).outcome.error.response).data =
           Some([detail |-> Some("bad url"), message |-> Some("server says no")])
    /\ Get(Get(settled).rejection).message[4] = "bad url"


\* the requests in flight, in the order sent
Requests(n) == [k \in DOMAIN n |-> n[k].request]

\* request i of a page settles with outcome o
PageSettles(i, o) ==
    \/ LanguagesSettle(i, o)
    \/ AnalyzeSettles(i, o)
    \/ QuerySettles(i, o)
    \/ L_SummarySettles(i, o)
    \/ L_QuerySettles(i, o)

\* C9: one invocation sends one request: no step sends more than one, and the
\* step in which a request settles, successfully or not, takes that request off
\* the network and sends nothing (a failed request is not sent again)
C9_OneRequestPerCall ==
    [][(/\ Len(net') <= Len(net) + 1
        /\ Len(net') = Len(net) + 1 =>
               SubSeq(Requests(net'), 1, Len(net)) = Requests(net)
        /\ (app = "none" /\ settled' # None) =>
               \A i \in DOMAIN net :
                   Direct_Settles(i, Get(settled').outcome) =>
                       Requests(net') = RemoveAt(Requests(net), i)
        /\ app # "none" =>
               \A i \in DOMAIN net : \A o \in Outcomes(net[i].request, PageErrors) :
                   PageSettles(i, o) => Requests(net') = RemoveAt(Requests(net), i))]_vars

\* a direct analysis call has failed and nothing is in flight
C9_Witness ==
    /\ DirectCallFailed("/api/advanced-summary")
    /\ Get(settled).result.threw
    /\ net = <<>>

\* C10: a submission of the form with an accepted URL sends one POST to
\* /api/advanced-summary whose body holds the URL as entered, the output
\* language selected, auto_detect_video_language true, and the hint selected,
\* null when none is
C10_SubmitSendsForm ==
    [][(url \in AcceptedUrls /\ handleSubmit) =>
           (/\ Len(net') = Len(net) + 1
            /\ net'[Len(net')].request =
                   [method |-> "POST",
                    url |-> "/api/advanced-summary",
                    data |-> Some([url |-> url,
                                   output_language |-> outputLanguage,
                                   auto_detect_video_language |-> TRUE,
                                   video_language_hint |->
                                       IF videoLanguageHint = "" THEN None
                                       ELSE Some(videoLanguageHint)])])]_vars

\* the form was submitted with the watch URL, Korean output and no hint
C10_Witness ==
    \E i \in DOMAIN net :
        /\ net[i].request.url = "/api/advanced-summary"
        /\ Get(net[i].request.data) =
               [url |-> UrlWatch, output_language |-> "ko",
                auto_detect_video_language |-> TRUE, video_language_hint |-> None]


\* C11: a query request of the advanced page carries the transcript of the
\* result the page holds, the question as it stands in the question box, the
\* page's selected language as output_language, a null query_language, and
\* no other field
C11_QueryCarriesHeldTranscript ==
    [][(/\ app = "advanced"
        /\ Len(net') = Len(net) + 1
        /\ net'[Len(net')].request.url = "/api/advanced-query") =>
           (/\ analysisData # None
            /\ net'[Len(net')].request =
                   [method |-> "POST",
                    url |-> "/api/advanced-query",
                    data |-> Some([transcript |-> Get(analysisData).transcript,
                                   query |-> query,
                                   output_language |-> selectedLanguage,
                                   query_language |-> None])])]_vars

\* a question about a Korean-output result is in flight
C11_Witness ==
    /\ app = "advanced"
    /\ Mounted
    /\ \E i \in DOMAIN net :
          /\ net[i].caller = "AnalysisResults"
          /\ net[i].live
          /\ Get(net[i].request.data).output_language = "ko"
          /\ Get(net[i].request.data).query = <<"w", "h", "y", "?">>

\* C12: when the request of analyzeVideoAdvanced or queryTranscriptAdvanced
\* fails, the accessor throws the very error the interceptor rejected with and
\* returns no value
C12_NoLocalRecovery ==
    (/\ settled # None
     /\ Get(settled).url \in {"/api/advanced-summary", "/api/advanced-query"}
     /\ ~Get(settled).outcome.ok) =>
        /\ Get(settled).result.threw
        /\ Get(settled).result.value = Get(Get(settled).rejection)

\* a direct query call failed with no response received
C12_Witness ==
    /\ DirectCallFailed("/api/advanced-query")
    /\ Get(settled).outcome.error.response = None
    /\ Get(settled).outcome.error.request
    /\ Get(settled).result = Throw([message |-> <<NetworkAdvisory>>])


\* analysis requests in flight
AnalysesInFlight == {i \in DOMAIN net : net[i].caller = "App"}

C14_LoadingUntilSettled ==
    /\ [](loading <=> AnalysesInFlight # {})
    /\ (loading ~> ~loading)

\* a submission's call has succeeded and the page has left the loading state
C14_Witness ==
    /\ app = "advanced"
    /\ url \in AcceptedUrls
    /\ AnalysesInFlight = {}
    /\ ~loading
    /\ analysisData # None
    /\ Get(analysisData).video = url


\* C15: the viewer holds one answer at most, and when a query call of the
\* mounted viewer succeeds the answer held is the response field of that
\* reply, whatever answer was held before
C15_OneAnswerReplaced ==
    /\ [](Len(queryResponse) <= 1)
    /\ [][(\A i \in DOMAIN net : \A o \in Replies(net[i].request) :
             (QuerySettles(i, o) /\ net[i].live) =>
                 queryResponse' = Some(o.data.response))]_vars

\* the second of the backend's answers is the one shown, no query is running
C15_Witness ==
    /\ app = "advanced"
    /\ Mounted
    /\ ~queryLoading
    /\ queryResponse = Some("answer two")
    /\ \A i \in DOMAIN net : net[i].caller # "AnalysisResults"


TabIds == {tabs[k] : k \in DOMAIN tabs}

\* C16: the active tab is always one of the seven; it is overview whenever a
\* viewer comes to be shown; and in a shown viewer each of the seven can be
\* selected from whichever tab is active, chat included
C16_TabsAlwaysNavigable ==
    /\ [](activeTab \in TabIds)
    /\ [](Mounted => \A t \in TabIds : ENABLED setActiveTab(t))
    /\ [][(~Mounted /\ Mounted') => activeTab' = "overview"]_vars

\* the word-cloud tab of a shown viewer is active
C16_Witness ==
    /\ app = "advanced"
    /\ Mounted
    /\ activeTab = "wordcloud"

\* C17: a step that changes the active tab of a shown viewer changes nothing
\* else: question, answer, query-loading flag, search term, analysis data and
\* the rest of the page stay, and no request is sent
C17_TabSelectionOnly ==
    [][(Mounted /\ Mounted' /\ activeTab' # activeTab) =>
           UNCHANGED <<query, queryResponse, queryLoading, searchTerm, analysisData,
                       net, appVars, analyzerVars>>]_vars

\* a question was asked and answered, a search term typed, and then the
\* sentiment tab selected: all of it is still held
C17_Witness ==
    /\ app = "advanced"
    /\ Mounted
    /\ activeTab = "sentiment"
    /\ searchTerm = "video"
    /\ query = <<"w", "h", "y", "?">>
    /\ queryResponse = Some("answer one")


\* C18, as claimed: with an empty search term the transcript rendered is the
\* transcript stored
C18_RenderedIsStored ==
    (Mounted /\ searchTerm = "") =>
        RenderedTranscript = Return(Get(analysisData).transcript)

\* C18, amended: an edit of the search term leaves the analysis data and the
\* network as they were; the transcript held is the one the analysis call
\* returned for the video; and with an empty search term the transcript
\* rendered is the transcript stored, or the placeholder text when the
\* transcript stored is empty
C18_SearchLeavesTranscript ==
    /\ [][(Mounted /\ Mounted' /\ searchTerm' # searchTerm) =>
              UNCHANGED <<analysisData, net>>]_vars
    /\ [](Mounted =>
             Get(analysisData).transcript \in TranscriptsOf(Get(analysisData).video))
    /\ []((Mounted /\ searchTerm = "") =>
             RenderedTranscript =
                 Return(IF Get(analysisData).transcript = <<>>
                        THEN <<"No transcript available">>
                        ELSE Get(analysisData).transcript))

\* a search term has been typed over a transcript that is not empty
C18_Witness ==
    /\ app = "advanced"
    /\ Mounted
    /\ activeTab = "transcript"
    /\ searchTerm = "video"
    /\ Get(analysisData).transcript = TranscriptOf(Get(analysisData).video)


\* C19, as claimed: whichever of the optional fields of the result are absent,
\* the render of the viewer throws on none of the seven tabs
C19_EveryTabRenders == ~RenderThrows

\* the part of C19 that holds: whichever of the optional fields of the result
\* are absent, the render throws on no tab while the search term is empty or
\* a regular expression
RendersWithFieldsAbsent == searchTerm \notin InvalidPatterns => ~RenderThrows

\* a result with no meta, no themes and no word cloud, on the themes tab
RendersWithFieldsAbsent_Witness ==
    /\ Mounted
    /\ Get(analysisData).meta = None
    /\ Get(analysisData).themes = None
    /\ Get(analysisData).wordcloud_b64 = None
    /\ activeTab = "themes"


\* C20, as claimed: the option of every language of the list shows the flag
\* followed at once by the native name
C20_DisplayIsFlagThenName ==
    (app = "advanced" /\ ~loadingLanguages) =>
        LET options == OutputLanguageOptions
        IN  \A j \in DOMAIN options : \A k \in DOMAIN supportedLanguages :
                options[j].value = supportedLanguages[k].code =>
                    options[j].text =
                        <<supportedLanguages[k].flag, supportedLanguages[k].native_name>>

\* C20, amended: every language of the list obtained has its option, and the
\* option shows the display string of that entry as it stands in the list;
\* in the fallback list that string is the flag, a space, the native name
C20_OptionShowsDisplay ==
    (app = "advanced" /\ ~loadingLanguages) =>
        LET options == OutputLanguageOptions
            isFallback ==
                [i \in DOMAIN supportedLanguages |-> supportedLanguages[i].code]
                    = FallbackCodes
        IN  /\ {options[j].value : j \in DOMAIN options} = OfferedCodes
            /\ \A j \in DOMAIN options : \A k \in DOMAIN supportedLanguages :
                   options[j].value = supportedLanguages[k].code =>
                       /\ options[j].text = supportedLanguages[k].display
                       /\ isFallback =>
                              options[j].text = <<supportedLanguages[k].flag, " ",
                                                  supportedLanguages[k].native_name>>

\* the catalog call failed and the select offers the ten built-in languages,
\* Italian after the popular ones
C20_Witness ==
    /\ app = "advanced"
    /\ ~loadingLanguages
    /\ Len(supportedLanguages) = 10
    /\ OutputLanguageOptions[10] = [value |-> "it", text |-> <<"flag-IT", " ", "Italiano">>]


\* C21: on the advanced page the error banner and an analysis result are never
\* both present: whatever submissions, successes and failures came before, the
\* banner is up only while no result is held
C21_BannerExcludesResult ==
    app = "advanced" => ~(error # None /\ analysisData # None)

\* an analysis has failed: the banner is up with no result beside it, and the
\* form is ready for the next submission
C21_Witness ==
    /\ app = "advanced"
    /\ error # None
    /\ analysisData = None
    /\ AnalysesInFlight = {}
    /\ SubmitEnabled


\* query requests in flight whose viewer was unmounted by a later submission
LateQueries == {i \in DOMAIN net : net[i].caller = "AnalysisResults" /\ ~net[i].live}

\* C22: an answer to a question asked about one analysis is never shown in the
\* chat tab of a later analysis: when a query call settles after a new analysis
\* was submitted, neither its answer nor its failure message reaches the viewer
\* and the viewer's loading state is as it was; an answer that is shown was
\* asked of the viewer on display, about its transcript and in its language
C22_LateAnswerNotShown ==
    [][(\A i \in DOMAIN net : \A o \in Outcomes(net[i].request, PageErrors) :
          QuerySettles(i, o) =>
              IF i \in LateQueries
              THEN queryResponse' = queryResponse /\ queryLoading' = queryLoading
              ELSE /\ Mounted
                   /\ queryLoading
                   /\ Get(net[i].request.data).transcript = Get(analysisData).transcript
                   /\ Get(net[i].request.data).output_language = selectedLanguage)]_vars

\* the result of a new analysis is on display, its chat untouched, while the
\* query call of the analysis before it is still in flight
C22_Witness ==
    /\ app = "advanced"
    /\ Mounted
    /\ ~loading
    /\ LateQueries # {}
    /\ queryResponse = Some("")
    /\ ~queryLoading


\* the requests in flight that the page has sent for an analysis or a question
PageCalls(n) == {i \in DOMAIN n : n[i].caller \in {"App", "AnalysisResults"}}

\* C23: while an analysis call is in flight no second analysis call and no
\* query call can be started through the controls: the URL field and the submit
\* button are disabled and the results viewer with its chat form is not
\* rendered, no step sends a request for the page, and so at most one analysis
\* request is outstanding at any time
C23_OneAnalysisAtATime ==
    /\ [](app = "advanced" =>
            /\ Cardinality(AnalysesInFlight) <= 1
            /\ AnalysesInFlight # {} =>
                   (loading /\ ~UrlInputEnabled /\ ~SubmitEnabled /\ ~Mounted))
    /\ [][AnalysesInFlight # {} =>
              Cardinality(PageCalls(net')) <= Cardinality(PageCalls(net))]_vars

\* an analysis call is in flight with a valid URL still in the form and the
\* languages loaded: the loading flag alone keeps the submit button disabled
C23_Witness ==
    /\ app = "advanced"
    /\ AnalysesInFlight # {}
    /\ Trim(url) # <<>>
    /\ isValidUrl
    /\ ~loadingLanguages
    /\ ~SubmitEnabled


\* C24: every query request carries as output_language the output language
\* requested for the analysis on display: a result arrives with selectedLanguage
\* equal to the output language of the request that produced it, selectedLanguage
\* stays as it is for as long as the result is displayed, whatever the form's
\* language select is set to meanwhile, and each query sent carries it
C24_QueryInLanguageOfAnalysis ==
    [][/\ \A i \in DOMAIN net : \A o \in Outcomes(net[i].request, PageErrors) :
            (AnalyzeSettles(i, o) /\ o.ok) =>
                selectedLanguage' = Get(net[i].request.data).output_language
       /\ (analysisData # None /\ analysisData' # None) =>
              selectedLanguage' = selectedLanguage
       /\ (AnalysisResults_handleQuery /\ Len(net') > Len(net)) =>
              Get(net'[Len(net')].request.data).output_language = selectedLanguage]_vars

\* a question about an analysis requested in Korean is in flight, sent with
\* output_language ko, after the form's select was turned back to English
C24_Witness ==
    /\ app = "advanced"
    /\ Mounted
    /\ Get(analysisData).output_language = "ko"
    /\ outputLanguage = "en"
    /\ selectedLanguage = "ko"
    /\ \E i \in DOMAIN net :
          /\ net[i].caller = "AnalysisResults"
          /\ net[i].live
          /\ Get(net[i].request.data).output_language = "ko"


\* C25: on the legacy page the one loading flag is true exactly while a summary
\* or a query request is in flight: with a request outstanding both buttons are
\* disabled, so at most one request is in flight, and once a request has
\* settled, with success or failure, and none is outstanding the flag is false
C25_LegacyLoadingWhileInFlight ==
    app = "legacy" =>
        /\ L_loading <=> net # <<>>
        /\ Len(net) <= 1
        /\ net # <<>> => (~L_SummarizeEnabled /\ ~L_AskEnabled)

\* a question is in flight with a URL in the field and a transcript held: the
\* loading flag alone keeps both buttons disabled
C25_Witness ==
    /\ app = "legacy"
    /\ L_loading
    /\ L_inputUrl # <<>>
    /\ L_transcript # <<>>
    /\ \E i \in DOMAIN net : net[i].caller = "LegacyApp.handleQuery"


\* C26, as claimed: on the legacy page a click on an agent's trigger makes its
\* tab the active one, its content the only one visible, and the next summary
\* request carries the model mapped to the agent clicked last (agent1 -> gemini,
\* agent2 -> gpt-3.5-turbo, agent3 -> claude)
C26_TriggerSelectsAgent ==
    [][/\ \A k \in DOMAIN AgentValues :
            TabsTrigger_onClick(AgentValues[k]) =>
                (Tabs_activeTab' = AgentValues[k] /\ VisibleContents' = {AgentValues[k]})
       /\ (L_handleSubmit /\ Len(net') > Len(net) /\ Tabs_clicked # None) =>
              Get(net'[Len(net')].request.data).agent = agents[Get(Tabs_clicked)]]_vars

\* what the page does instead: whatever is clicked, the first tab stays the
\* active one, no trigger is drawn as active, and every summary request names
\* the model of agent1
AgentStaysDefault ==
    app = "legacy" =>
        /\ Tabs_activeTab = "agent1"
        /\ L_activeAgent = "agent1"
        /\ VisibleContents = {"agent1"}
        /\ \A k \in DOMAIN AgentValues : ~TabsTrigger_isActive(AgentValues[k])
        /\ \A i \in DOMAIN net :
              net[i].caller = "LegacyApp.handleSubmit" =>
                  Get(net[i].request.data).agent = "gemini"

\* the trigger of agent3 was clicked and a summary request is in flight
AgentStaysDefault_Witness ==
    /\ app = "legacy"
    /\ Tabs_clicked = Some("agent3")
    /\ \E i \in DOMAIN net : net[i].caller = "LegacyApp.handleSubmit"

====
